---- MODULE Spec2Model ----
(***************************************************************************)
(* A model of the retrieval-augmented question-answering code of the       *)
(* repository: the lab8 upload loop, retrieval, re-ranking, answer         *)
(* generation and query block (lab8.py), the ChromaDB ingestion of lab4    *)
(* (lab4.py), and the chunk_text functions of both.                        *)
(*                                                                         *)
(* A document is represented by the sequence of chunk texts its chunker    *)
(* returns for it (the chunkers are deterministic functions of the text);  *)
(* the empty sequence stands for a document whose extracted text is empty. *)
(* The external services (embedding, relevance scoring, ChromaDB) are the  *)
(* environment: each call either fails or returns, the choice being an     *)
(* input of the action that makes the call.                                *)
(***************************************************************************)
EXTENDS Integers, Sequences, FiniteSets, TLC

VARIABLES
    page,            \* the page of the multipage app that is running
    uploaded_files,  \* lab8: the user's PDF files, file name -> chunk texts
    documents,       \* lab8: st.session_state.documents
    pdfs,            \* lab4: the files of the pdfs/ folder, name -> chunk texts
    coll,            \* lab4: the set of entries of the Chroma collection Lab4Collection
    added,           \* lab4: the count build_or_refresh_collection returned last
    builds,          \* lab4: how many times the collection was built
    chroma,          \* lab4: what Collection.add does with an id already present
    add_failed,      \* lab4: whether an embedding call failed for the last build
    add_failures,    \* lab4: for the last build, the calls whose embedding call failed
    uploads,         \* lab8: per file name, how many times it went through the upload loop
    embedded,        \* lab8: per stored file name, which embedding calls succeeded
    pc,              \* lab8 query: "idle", "retrieved", "reranked", "answered" or "failed"
    args,            \* lab8 query: the arguments of the retrieval call
    retrieved,       \* lab8 query: what retrieve_relevant_chunks returned or raised
    responses,       \* lab8 query: the scorer's response for each retrieved hit
    reranked,        \* lab8 query: what rerank_chunks returned
    use_reranking,   \* lab8 query: the "Enable Re-Ranking" checkbox
    final_chunks,    \* lab8 query: the hits passed to generate_answer
    generation,      \* lab8 query: what the answer-generation call did
    context,         \* lab8 query: the hits generate_answer put in the prompt
    excerpts,        \* lab8 query: how many characters of each hit are in the prompt
    sources,         \* lab8 query: the hits shown under "Sources Used"
    answer,          \* lab8 query: the text shown under "Analysis Results"
    calls,           \* lab8 query: how many calls each service got
    chunker,         \* chunking: the chunk_text that is called, of "lab4" or of "lab8"
    ct_text,         \* chunking: the text to chunk, a sequence of characters
    ct_max_chars,    \* chunking: max_chars (lab4), chunk_size (lab8)
    ct_overlap,      \* chunking: overlap
    ct_chunks,       \* chunking: the list chunks, as built so far
    ct_start,        \* chunking: lab8's window start
    ct_closes,       \* chunking: lab4, for each chunk but the last, how it was closed
    chunking,        \* chunking: "idle", "called", "running" or "returned"
    chat_history,    \* lab3: st.session_state.chat_history
    chat_log,        \* lab3: every message appended to chat_history, in order
    last_user_question, \* lab3: st.session_state.last_user_question
    prompt,          \* lab3: the prompt handled last
    stream,          \* lab3: the calls generate_response_streaming made for it
    expanded,        \* lab3: the topic the expand instruction named for it
    document_text,   \* lab1, lab2: st.session_state["document_text"], or absent
    document_name,   \* lab1, lab2: st.session_state["document_name"], or absent
    loaded_before,   \* lab1, lab2: document_text was there when the last run began
    doc_run,         \* lab1, lab2: what the last run of the page was given and did
    run_results,     \* orchestrator: the results of the last run_complete_pipeline
    step_calls,      \* orchestrator: the steps the last run called, in order
    saved,           \* orchestrator: the results written by _save_results, in order
    pipeline_runs,   \* orchestrator: how many times run_complete_pipeline was called
    clock            \* orchestrator: what datetime.now() returns next

vars == <<page, uploaded_files, documents, pdfs, coll, added, builds, chroma, add_failed,
          add_failures,
          uploads, embedded,
          pc, args, retrieved, responses, reranked,
          use_reranking, final_chunks, generation, context, excerpts, sources,
          answer, calls,
          chunker, ct_text, ct_max_chars, ct_overlap, ct_chunks, ct_start, ct_closes,
          chunking,
          chat_history, chat_log, last_user_question, prompt, stream, expanded,
          document_text, document_name, loaded_before, doc_run,
          run_results, step_calls, saved, pipeline_runs, clock>>

lab8Vars == <<uploaded_files, documents, uploads, embedded>>
lab4Vars == <<pdfs, coll, added, builds, chroma, add_failed, add_failures>>
mainVars == <<use_reranking, final_chunks, generation, context, excerpts, sources,
              answer, calls>>
queryVars == <<pc, args, retrieved, responses, reranked, mainVars>>
chunkVars == <<chunker, ct_text, ct_max_chars, ct_overlap, ct_chunks, ct_start, ct_closes,
               chunking>>
chatVars == <<chat_history, chat_log, last_user_question, prompt, stream, expanded>>
\* the variables of the pages other than lab4 and lab8
docVars == <<document_text, document_name, loaded_before, doc_run>>
pipelineVars == <<run_results, step_calls, saved, pipeline_runs, clock>>
otherVars == <<chatVars, docVars, pipelineVars>>

----------------------------------------------------------------------------
(* Bounds of the model *)

\* the most chunks an uploaded document has
MaxChunks == 3
\* the most chunks a file of the pdfs/ folder has
MaxFolderChunks == 2
\* the most times the lab4 collection is built in one behaviour
MaxBuilds == 2
\* the most times one file goes through the lab8 upload loop
MaxUploads == 2

\* the chunk texts documents are made of, in the order they come in a document
TextOrder == <<"t1", "t2", "t3", "t4", "t5">>
\* the file names, in sorted order
FileNames == <<"amazon.pdf", "apple.pdf">>
Names == {FileNames[i] : i \in DOMAIN FileNames}

None == "None"

\* the documents of at most n chunks: the document of no text, and the
\* documents made of the first chunk texts (two documents share their first chunks)
Documents(n) == {SubSeq(TextOrder, 1, k) : k \in 0..n}

----------------------------------------------------------------------------
(* The embedding service *)

\* The vector the embedding service returns for a text. The vectors have
\* integer norms (1 or 5), so that every cosine similarity is a multiple of 1/25.
EmbeddingOf(text) ==
    CASE text = "t1" -> <<1, 0>>
      [] text = "t2" -> <<0, 1>>
      [] text = "t3" -> <<0, -1>>
      [] text = "t4" -> <<-1, 0>>
      [] text = "t5" -> <<-3, -4>>
      [] text = "q1" -> <<1, 0>>
      [] text = "q2" -> <<3, 4>>
      [] OTHER -> <<0, 0>>

\* lab8 get_embedding: the vector, or None when the call raised
get_embedding(text, ok) == IF ok THEN EmbeddingOf(text) ELSE None

----------------------------------------------------------------------------
(* lab8: the upload loop of main *)

\* lines 241-250: the embeddings of the chunks whose call succeeded, in order
RECURSIVE EmbedChunks(_, _, _)
EmbedChunks(chunks, ok, i) ==
    IF i > Len(chunks) THEN <<>>
    ELSE LET embedding == get_embedding(chunks[i], ok[i])
         IN  (IF embedding # None THEN <<embedding>> ELSE <<>>)
                 \o EmbedChunks(chunks, ok, i + 1)

\* line 257, with a fault: it keeps every chunk
KeptChunksAll(chunks, embeddings) == chunks

\* line 257: chunks[:len(embeddings)]
KeptChunks(chunks, embeddings) == SubSeq(chunks, 1, Len(embeddings))

\* lines 259-260
Company(name) ==
    CASE name = "amazon.pdf" -> "Amazon"
      [] name = "apple.pdf" -> "Apple"
      [] OTHER -> "Company"

\* lines 256-261: the entry stored for a document
StoredDocument(name, chunks, ok) ==
    LET embeddings == EmbedChunks(chunks, ok, 1)
    IN  [chunks |-> KeptChunks(chunks, embeddings),
         embeddings |-> embeddings,
         company |-> Company(name)]

\* line 232: the file name is a key of the stored documents
AlreadyLoaded(name) == name \in DOMAIN documents

\* lines 231-263: one file of the uploader goes through the loop body; ok[i]
\* tells whether the embedding call of chunk i succeeds
Upload(name, ok) ==
    LET chunks == uploaded_files[name]
    IN  /\ page = "lab8"
        /\ uploads[name] < MaxUploads
        /\ uploads' = [uploads EXCEPT ![name] = @ + 1]
        /\ IF ~AlreadyLoaded(name) /\ chunks # <<>>
           THEN /\ documents' =
                    [n \in DOMAIN documents \cup {name} |->
                        IF n = name THEN StoredDocument(name, chunks, ok)
                        ELSE documents[n]]
                /\ embedded' =
                    [n \in DOMAIN embedded \cup {name} |->
                        IF n = name THEN ok ELSE embedded[n]]
           ELSE UNCHANGED <<documents, embedded>>
        /\ UNCHANGED <<page, uploaded_files>>
        /\ UNCHANGED lab4Vars
        /\ UNCHANGED queryVars
        /\ UNCHANGED chunkVars
        /\ UNCHANGED otherVars

UploadStep ==
    \E name \in Names :
        \E ok \in [1..Len(uploaded_files[name]) -> BOOLEAN] : Upload(name, ok)

----------------------------------------------------------------------------
(* lab4: build_or_refresh_collection *)

\* line 125
batch == 512

Min(a, b) == IF a < b THEN a ELSE b

\* line 118, with a fault: it numbers the ids by run, so that they differ between runs
doc_id_per_run(fname, idx) ==
    fname \o "::chunk-" \o ToString(idx) \o "-" \o ToString(builds)

\* line 118, with a fault: it leaves the file name out of the id
doc_id_without_source(fname, idx) == "chunk-" \o ToString(idx)

\* line 118: f"{fname}::chunk-{idx}"
doc_id(fname, idx) == fname \o "::chunk-" \o ToString(idx)

\* lines 115-121: the entries of one file, one per chunk
FileItems(fname) ==
    [i \in 1..Len(pdfs[fname]) |->
        [id |-> doc_id(fname, i - 1),
         document |-> pdfs[fname][i],
         metadata |-> [source |-> fname, chunk |-> i - 1]]]

\* lines 108-121: to_add_ids, to_add_docs and to_add_metas as one list of
\* entries, over the files in sorted order; a file with no text is skipped
RECURSIVE to_add(_)
to_add(k) ==
    IF k > Len(FileNames) THEN <<>>
    ELSE (IF FileNames[k] \in DOMAIN pdfs THEN FileItems(FileNames[k]) ELSE <<>>)
            \o to_add(k + 1)

Ids(c) == {e.id : e \in c}

\* Collection.add raises when the embedding call fails and, in the chromadb
\* versions that reject a known id, when an id of the call is already stored
AddRaises(c, items, fails) ==
    \/ fails
    \/ /\ chroma = "raises"
       /\ \E i \in DOMAIN items : items[i].id \in Ids(c)

\* Collection.add when it does not raise: the entries are stored; the
\* chromadb versions that do not reject a known id leave it as stored
AddResult(c, items) ==
    c \cup {items[i] : i \in {j \in DOMAIN items : items[j].id \notin Ids(c)}}

\* lines 136-145, with a fault: the retry of a batch ends at the first item
\* whose add fails
RECURSIVE PerItemUntilFailure(_, _, _, _, _, _)
PerItemUntilFailure(c, n, items, i, end, failItem) ==
    IF i >= end \/ i >= Len(items) THEN [coll |-> c, added |-> n]
    ELSE IF ~AddRaises(c, <<items[i + 1]>>, failItem[i + 1])
         THEN PerItemUntilFailure(AddResult(c, <<items[i + 1]>>), n + 1, items, i + 1,
                                  end, failItem)
         ELSE [coll |-> c, added |-> n]

\* lines 136-145: the per-item retry of a failed batch; an index past the end
\* of the lists raises inside the try and is passed over like a failed add
RECURSIVE PerItem(_, _, _, _, _, _)
PerItem(c, n, items, i, end, failItem) ==
    IF i >= end \/ i >= Len(items) THEN [coll |-> c, added |-> n]
    ELSE IF ~AddRaises(c, <<items[i + 1]>>, failItem[i + 1])
         THEN PerItem(AddResult(c, <<items[i + 1]>>), n + 1, items, i + 1, end, failItem)
         ELSE PerItem(c, n, items, i + 1, end, failItem)

\* lines 124-145: the batches, from index start on
RECURSIVE BatchLoop(_, _, _, _, _)
BatchLoop(c, n, items, start, fail) ==
    IF start >= Len(items) THEN [coll |-> c, added |-> n]
    ELSE LET end == start + batch
             slice == SubSeq(items, start + 1, Min(end, Len(items)))
         IN  IF ~AddRaises(c, slice, fail.batch[start])
             THEN BatchLoop(AddResult(c, slice), n + (end - start), items, end, fail)
             ELSE LET r == PerItem(c, n, items, start, end, fail.item)
                  IN  BatchLoop(r.coll, r.added, items, end, fail)

\* the failure patterns of one run: per batch and per retried item, whether
\* the embedding call inside Collection.add fails
Failures(items) ==
    LET starts == {s \in 0..Len(items) : s % batch = 0 /\ s < Len(items)}
    IN  [batch : [starts -> BOOLEAN], item : [1..Len(items) -> BOOLEAN]]

\* the pattern of a run that makes no Collection.add call
NoFailures == [batch |-> [s \in {} |-> FALSE], item |-> [i \in {} |-> FALSE]]

\* the embedding call fails for some Collection.add of the pattern
AnyFailure(fail) ==
    \/ \E s \in DOMAIN fail.batch : fail.batch[s]
    \/ \E i \in DOMAIN fail.item : fail.item[i]

\* lines 95-152
build_or_refresh_collection(fail) ==
    LET items == to_add(1)
        r == BatchLoop(coll, 0, items, 0, fail)
    IN  /\ page = "lab4"
        /\ builds < MaxBuilds
        /\ builds' = builds + 1
        /\ IF DOMAIN pdfs = {}
           THEN coll' = coll /\ added' = 0
           ELSE coll' = r.coll /\ added' = r.added
        /\ add_failed' = AnyFailure(fail)
        /\ add_failures' = IF DOMAIN pdfs = {} THEN NoFailures ELSE fail
        /\ UNCHANGED <<page, pdfs, chroma>>
        /\ UNCHANGED lab8Vars
        /\ UNCHANGED queryVars
        /\ UNCHANGED chunkVars
        /\ UNCHANGED otherVars

Build == \E fail \in Failures(to_add(1)) : build_or_refresh_collection(fail)

----------------------------------------------------------------------------
(* The ingestion of documents: the lab8 upload loop and the lab4 build *)

\* a folder or an upload list: some of the file names, each with a document
Folders == UNION {[S -> Documents(MaxFolderChunks)] : S \in SUBSET Names}

\* no query has been made
QueryIdle ==
    /\ pc = "idle"
    /\ args = [doc |-> None, query |-> None, embedded |-> FALSE, top_k |-> 0]
    /\ retrieved = [raised |-> FALSE, results |-> <<>>]
    /\ responses = <<>>
    /\ reranked = <<>>
    /\ use_reranking = FALSE
    /\ final_chunks = <<>>
    /\ generation = [called |-> FALSE, raised |-> FALSE, text |-> ""]
    /\ context = <<>>
    /\ excerpts = <<>>
    /\ sources = <<>>
    /\ answer = None
    /\ calls = [scorer |-> 0, generator |-> 0]

\* lines 30-33 of lab3.py: the session state of a new session; no prompt
\* has been handled
ChatIdle ==
    /\ chat_history = <<>>
    /\ chat_log = <<>>
    /\ last_user_question = None
    /\ prompt = None
    /\ stream = [calls |-> <<>>, result |-> "none"]
    /\ expanded = None

\* a session-state key that is not there
Absent == [present |-> FALSE, value |-> <<>>]

\* no file is in the uploader
NoFile == [extension |-> None, data |-> <<>>, readable |-> FALSE]

\* lab1, lab2: the session state of a new session; the page has not run
DocIdle ==
    /\ document_text = Absent
    /\ document_name = Absent
    /\ loaded_before = FALSE
    /\ doc_run = [page |-> None, reached |-> FALSE, uploaded |-> NoFile, called |-> FALSE]

\* orchestrator: run_complete_pipeline has not been called
PipelineIdle ==
    /\ run_results = [start_time |-> 0, steps |-> <<>>, status |-> None,
                      error |-> None, end_time |-> 0]
    /\ step_calls = <<>>
    /\ saved = <<>>
    /\ pipeline_runs = 0
    /\ clock = 1

\* the pages other than lab4 and lab8, and the pipeline, have not run
OtherIdle == ChatIdle /\ DocIdle /\ PipelineIdle

\* nothing has been uploaded to lab8 and nothing is in the folder of lab4
IngestIdle ==
    /\ uploaded_files = [n \in Names |-> <<>>]
    /\ documents = <<>>
    /\ embedded = <<>>
    /\ uploads = [n \in Names |-> 0]
    /\ pdfs = <<>>
    /\ coll = {}
    /\ added = 0
    /\ builds = 0
    /\ add_failed = FALSE
    /\ add_failures = NoFailures
    /\ chroma = "raises"

\* no chunk_text call is followed
ChunkIdle ==
    /\ chunker = None
    /\ ct_text = <<>>
    /\ ct_max_chars = 0
    /\ ct_overlap = 0
    /\ ct_chunks = <<>>
    /\ ct_start = 0
    /\ ct_closes = <<>>
    /\ chunking = "idle"

Init ==
    /\ page \in {"lab4", "lab8"}
    /\ QueryIdle
    /\ ChunkIdle
    /\ OtherIdle
    /\ documents = <<>>
    /\ embedded = <<>>
    /\ uploads = [n \in Names |-> 0]
    /\ coll = {}
    /\ added = 0
    /\ builds = 0
    /\ add_failed = FALSE
    /\ add_failures = NoFailures
    /\ IF page = "lab8"
       THEN /\ uploaded_files \in [Names -> Documents(MaxChunks)]
            /\ pdfs = <<>>
            /\ chroma = "raises"
       ELSE /\ uploaded_files = [n \in Names |-> <<>>]
            /\ pdfs \in Folders
            /\ chroma \in {"raises", "ignores"}

Next == UploadStep \/ Build

Spec == Init /\ [][Next]_vars

----------------------------------------------------------------------------
(* Claims about ingestion, checked under Spec *)

\* the chunks of a document whose embedding call succeeded, in order
RECURSIVE Embeddable(_, _, _)
Embeddable(chunks, ok, i) ==
    IF i > Len(chunks) THEN <<>>
    ELSE (IF ok[i] THEN <<chunks[i]>> ELSE <<>>) \o Embeddable(chunks, ok, i + 1)

\* C1: after a lab8 ingestion in which some embedding calls failed, the stored
\* chunks are exactly the chunks whose embedding succeeded, and the stored
\* vector at every position is the embedding of the stored chunk at that position.
C1_StoredChunksAligned ==
    \A n \in DOMAIN documents :
        /\ documents[n].chunks = Embeddable(uploaded_files[n], embedded[n], 1)
        /\ \A i \in DOMAIN documents[n].chunks :
               /\ i \in DOMAIN documents[n].embeddings
               /\ documents[n].embeddings[i] = EmbeddingOf(documents[n].chunks[i])

\* C2: every stored lab8 document has exactly as many chunks as vectors.
C2_SameLength ==
    \A n \in DOMAIN documents :
        Len(documents[n].chunks) = Len(documents[n].embeddings)

\* a document is stored whose embedding calls partly failed and partly succeeded
C2_Witness ==
    \E n \in DOMAIN documents :
        /\ \E i \in DOMAIN embedded[n] : ~embedded[n][i]
        /\ \E i \in DOMAIN embedded[n] : embedded[n][i]
        /\ Len(documents[n].chunks) >= 1

\* the number of chunks stored, in the lab8 session and in the lab4 collection
StoredCount ==
    IF page = "lab8"
    THEN LET RECURSIVE Sum(_)
             Sum(k) == IF k > Len(FileNames) THEN 0
                       ELSE (IF FileNames[k] \in DOMAIN documents
                             THEN Len(documents[FileNames[k]].chunks) ELSE 0)
                            + Sum(k + 1)
         IN  Sum(1)
    ELSE Cardinality(coll)

\* the step ingests again a document that was ingested before: a file goes
\* through the upload loop once more, or the collection is built once more
\* from the same folder
ReIngest ==
    \/ \E n \in Names : uploads[n] >= 1 /\ uploads'[n] = uploads[n] + 1
    \/ builds >= 1 /\ builds' = builds + 1

\* C3 as stated: ingesting the same document a second time leaves the number
\* of stored chunks unchanged, for the lab4 build and for the lab8 upload loop.
C3_Idempotent == [][ReIngest => StoredCount' = StoredCount]_vars

\* the (source, chunk index) pairs stored in the collection
Keys(c) == {<<e.metadata.source, e.metadata.chunk>> : e \in c}

\* the (source, chunk index) pairs of the folder's documents
FolderKeys == UNION {{<<f, i - 1>> : i \in DOMAIN pdfs[f]} : f \in DOMAIN pdfs}

\* C3 amended: a second ingestion stores no chunk twice and removes none; the
\* lab8 upload loop leaves the stored documents as they are; the lab4 build
\* leaves the collection as it is when every chunk of the folder is stored
\* already (a chunk whose add failed before may be added now).
C3_IdempotentOnceStored ==
    [][ReIngest =>
        /\ documents' = documents
        /\ \A e1, e2 \in coll' : e1.metadata = e2.metadata => e1 = e2
        /\ coll \subseteq coll'
        /\ (FolderKeys \subseteq Keys(coll) => coll' = coll)]_vars

\* the collection was built a second time, from a folder of at least two
\* chunks that were all stored already, and nothing was added
C3_Witness ==
    /\ builds >= 2
    /\ chroma = "raises"
    /\ added = 0
    /\ Cardinality(coll) >= 2
    /\ FolderKeys = Keys(coll)

\* C19: the count build_or_refresh_collection returns is the number of
\* chunks the call added to the collection.
C19_AddedCountsStored ==
    [][builds' = builds + 1 => added' = Cardinality(coll' \ coll)]_vars

\* C20: documents of different source names are stored independently, also
\* when they hold a chunk of the same text: no two stored chunks share a key,
\* every stored chunk has the text of its own source, a build in which no
\* embedding call fails leaves every chunk of every file stored, an upload
\* of one file leaves the stored entry of every other file as it is, and a
\* file whose embedding calls all succeeded is stored with all its chunks.
C20_SourcesStoredIndependently ==
    [][/\ \A e1, e2 \in coll' : e1.id = e2.id => e1 = e2
       /\ \A e \in coll' :
              /\ e.metadata.source \in DOMAIN pdfs
              /\ e.metadata.chunk + 1 \in DOMAIN pdfs[e.metadata.source]
              /\ e.document = pdfs[e.metadata.source][e.metadata.chunk + 1]
       /\ (builds' = builds + 1 /\ ~add_failed') => FolderKeys \subseteq Keys(coll')
       /\ \A n \in Names :
              uploads'[n] = uploads[n] =>
                  /\ (n \in DOMAIN documents') = (n \in DOMAIN documents)
                  /\ n \in DOMAIN documents => documents'[n] = documents[n]
       /\ \A n \in DOMAIN documents' :
              (\A i \in DOMAIN embedded'[n] : embedded'[n][i]) =>
                  documents'[n].chunks = uploaded_files[n]]_vars

\* two files of the folder hold a chunk of the same text, and both chunks
\* are stored after a build in which no embedding call failed
C20_Witness ==
    /\ builds >= 1
    /\ ~add_failed
    /\ \E e1, e2 \in coll :
           /\ e1.document = e2.document
           /\ e1.metadata.source # e2.metadata.source
    /\ FolderKeys = Keys(coll)

\* the entries of the batch that begins at index start of the list
BatchOf(items, start) == {i \in DOMAIN items : start < i /\ i <= start + batch}

\* the id of entry i is stored before the run
Known(items, i) == items[i].id \in Ids(coll)

\* the add of the batch fails: its embedding call fails, or it holds a known
\* id and the collection rejects known ids
BatchFailed(items, start, fail) ==
    \/ fail.batch[start]
    \/ chroma = "raises" /\ \E i \in BatchOf(items, start) : Known(items, i)

\* the add of entry i alone fails
ItemFailed(items, i, fail) ==
    \/ fail.item[i]
    \/ chroma = "raises" /\ Known(items, i)

----------------------------------------------------------------------------
(* lab8: retrieve_relevant_chunks *)

\* A similarity is kept as the integer SimScale * cosine: the norms of the
\* vectors are 1 or 5, so 5 * 5 times a cosine is an integer. The arithmetic
\* is exact; the rounding of the floating-point numbers is not modelled.
SimScale == 5 * 5

Max(a, b) == IF a > b THEN a ELSE b

Dot(a, b) == a[1] * b[1] + a[2] * b[2]

Norm(a) == CHOOSE n \in 0..5 : n * n = Dot(a, a)

\* line 75: sklearn's cosine_similarity for one pair of vectors; its
\* normalisation leaves a zero vector as it is, so that its similarity is 0
cosine_similarity(a, b) ==
    IF Norm(a) = 0 \/ Norm(b) = 0 THEN 0
    ELSE (SimScale * Dot(a, b)) \div (Norm(a) * Norm(b))

\* line 75
similarities(query_embedding, embeddings) ==
    [i \in DOMAIN embeddings |-> cosine_similarity(query_embedding, embeddings[i])]

Orderings(n) ==
    {p \in [1..n -> 1..n] : \A i, j \in 1..n : p[i] = p[j] => i = j}

\* line 78: np.argsort: the orders that put the similarities in ascending
\* order. Its default sort is not stable, so equal similarities come in any order.
argsort(sims) ==
    {p \in Orderings(Len(sims)) :
        \A i \in 1..Len(sims) - 1 : sims[p[i]] <= sims[p[i + 1]]}

Reverse(s) == [i \in 1..Len(s) |-> s[Len(s) + 1 - i]]

\* line 78: order[-top_k:], the slice from -top_k on: the last top_k
\* entries when top_k > 0, all but the first -top_k entries when top_k <= 0
LastK(order, top_k) ==
    LET n == Len(order)
        start == IF top_k > 0 THEN Max(n - top_k, 0) ELSE Min(0 - top_k, n)
    IN  SubSeq(order, start + 1, n)

\* line 78, with a fault: it forgets the [::-1]
top_indices_ascending(order, top_k) == LastK(order, top_k)

\* line 78: order[-top_k:][::-1]
top_indices(order, top_k) == Reverse(LastK(order, top_k))

\* lines 64-89: ok tells whether the embedding call of the query succeeds,
\* order is what np.argsort returns. The index of a hit counts from 0.
retrieve_relevant_chunks(query, chunks, embeddings, ok, top_k, order) ==
    LET query_embedding == get_embedding(query, ok)
    IN  IF query_embedding = None
        THEN [raised |-> FALSE, results |-> <<>>]
        ELSE IF embeddings = <<>>
        \* np.array([]) has one dimension: cosine_similarity raises ValueError
        THEN [raised |-> TRUE, results |-> <<>>]
        ELSE LET sims == similarities(query_embedding, embeddings)
                 top == top_indices(order, top_k)
             IN  [raised |-> FALSE,
                  results |-> [j \in 1..Len(top) |->
                                 [chunk |-> chunks[top[j]],
                                  similarity |-> sims[top[j]],
                                  index |-> top[j] - 1]]]

\* the orders np.argsort may return for a call
Orders(query, embeddings, ok) ==
    IF ok /\ embeddings # <<>>
    THEN argsort(similarities(EmbeddingOf(query), embeddings))
    ELSE {<<>>}

\* a call of retrieve_relevant_chunks on a stored document
Retrieve(name, query, ok, top_k) ==
    /\ pc = "idle"
    /\ name \in DOMAIN documents
    /\ LET doc_data == documents[name]
       IN  \E order \in Orders(query, doc_data.embeddings, ok) :
               retrieved' = retrieve_relevant_chunks(
                   query, doc_data.chunks, doc_data.embeddings, ok, top_k, order)
    /\ args' = [doc |-> name, query |-> query, embedded |-> ok, top_k |-> top_k]
    /\ pc' = "retrieved"
    /\ UNCHANGED <<responses, reranked, page>>
    /\ UNCHANGED mainVars
    /\ UNCHANGED lab8Vars
    /\ UNCHANGED lab4Vars
    /\ UNCHANGED chunkVars
    /\ UNCHANGED otherVars

----------------------------------------------------------------------------
(* lab8: rerank_chunks *)

\* A score is kept as the integer ScoreScale * score, in hundredths.
ScoreScale == 10 * 10

IsDigit(c) == c \in {"0", "1", "2", "3", "4", "5", "6", "7", "8", "9"}

DigitValue(c) ==
    CASE c = "0" -> 0 [] c = "1" -> 1 [] c = "2" -> 2 [] c = "3" -> 3
      [] c = "4" -> 4 [] c = "5" -> 5 [] c = "6" -> 6 [] c = "7" -> 7
      [] c = "8" -> 8 [] c = "9" -> 9

\* the number a sequence of digits writes
RECURSIVE IntValue(_)
IntValue(ds) ==
    IF ds = <<>> THEN 0
    ELSE 10 * IntValue(SubSeq(ds, 1, Len(ds) - 1)) + DigitValue(ds[Len(ds)])

RECURSIVE Pow10(_)
Pow10(n) == IF n = 0 THEN 1 ELSE 10 * Pow10(n - 1)

\* line 120: ''.join(filter(lambda x: x.isdigit() or x == '.', score_text))
KeptCharacters(score_text) ==
    SelectSeq(score_text, LAMBDA c : IsDigit(c) \/ c = ".")

\* line 120: float() of a text of digits and points: it raises ValueError
\* for a text with no digit or with more than one point; otherwise it
\* returns the value, here in hundredths (further decimals are cut)
float(text) ==
    LET points == {i \in DOMAIN text : text[i] = "."}
    IN  IF Cardinality(points) > 1 \/ Cardinality(points) = Len(text)
        THEN [raised |-> TRUE, value |-> 0]
        ELSE IF points = {}
        THEN [raised |-> FALSE, value |-> IntValue(text) * ScoreScale]
        ELSE LET p == CHOOSE i \in points : TRUE
                 decimals == SubSeq(text, p + 1, Len(text))
             IN  [raised |-> FALSE,
                  value |-> IntValue(SubSeq(text, 1, p - 1)) * ScoreScale
                            + (IntValue(decimals) * ScoreScale) \div Pow10(Len(decimals))]

\* line 121: min(max(score, 0), 10)
Clamp(score) == Min(Max(score, 0), 10 * ScoreScale)

\* line 126: similarity * 10
FallbackScore(item) == (item.similarity * 10 * ScoreScale) \div SimScale

\* lines 107-127: the score of one hit; response tells whether the scoring
\* call raised and, when it did not, the text it returned
item_score(item, response) ==
    IF response.raised THEN FallbackScore(item)
    ELSE LET score == float(KeptCharacters(response.text))
         IN  IF score.raised THEN FallbackScore(item) ELSE Clamp(score.value)

WithScore(item, score) ==
    [chunk |-> item.chunk, similarity |-> item.similarity,
     index |-> item.index, rerank_score |-> score]

\* lines 99-127, with a fault: it appends a hit only when its scoring succeeded
ScoredItemsDroppingFailed(retrieved_chunks, resp) ==
    LET scored == [i \in DOMAIN retrieved_chunks |->
                     WithScore(retrieved_chunks[i],
                               item_score(retrieved_chunks[i], resp[i]))]
        RECURSIVE Keep(_)
        Keep(i) == IF i > Len(scored) THEN <<>>
                   ELSE (IF resp[i].raised THEN <<>> ELSE <<scored[i]>>) \o Keep(i + 1)
    IN  Keep(1)

\* lines 99-127: every hit gets its rerank_score and is appended, in input order
ScoredItems(retrieved_chunks, resp) ==
    [i \in DOMAIN retrieved_chunks |->
        WithScore(retrieved_chunks[i], item_score(retrieved_chunks[i], resp[i]))]

\* the place of a new item in a list sorted by descending score: after every
\* item whose score is not lower
RECURSIVE InsertDescending(_, _)
InsertDescending(sorted, item) ==
    IF sorted = <<>> THEN <<item>>
    ELSE IF sorted[1].rerank_score >= item.rerank_score
         THEN <<sorted[1]>> \o InsertDescending(Tail(sorted), item)
         ELSE <<item>> \o sorted

RECURSIVE StableSortDescending(_, _)
StableSortDescending(items, n) ==
    IF n = 0 THEN <<>>
    ELSE InsertDescending(StableSortDescending(items, n - 1), items[n])

\* line 130, with a fault: it sorts ascending and reverses the list
sort_ascending_reversed(items) ==
    LET negated == [i \in DOMAIN items |->
                      WithScore(items[i], 0 - items[i].rerank_score)]
        sorted == StableSortDescending(negated, Len(negated))
    IN  Reverse([i \in DOMAIN sorted |->
                   WithScore(sorted[i], 0 - sorted[i].rerank_score)])

\* line 130: list.sort(key=rerank_score, reverse=True), which is stable:
\* items of equal score keep their order
sort_reverse(items) == StableSortDescending(items, Len(items))

\* lines 91-131
rerank_chunks(retrieved_chunks, resp) ==
    IF retrieved_chunks = <<>> THEN <<>>
    ELSE sort_reverse(ScoredItems(retrieved_chunks, resp))

\* the texts the relevance scorer answers with, as sequences of characters
ResponseTexts ==
    {<<"3">>,
     <<"8", ".", "5">>,
     <<"8", "/", "1", "0">>,
     <<"8", ".", "5", ".">>,
     <<"N", "/", "A">>}

\* the outcomes of a scoring call: it raises, or it returns a text
Responses ==
    {[raised |-> TRUE, text |-> <<>>]}
        \cup {[raised |-> FALSE, text |-> t] : t \in ResponseTexts}

\* a call of rerank_chunks on the hits retrieved; resp[i] is the outcome of
\* the scoring call for hit i. The items of the list passed
\* in are the ones that get the rerank_score.
Rerank(resp) ==
    /\ pc = "retrieved"
    /\ ~retrieved.raised
    /\ responses' = resp
    /\ reranked' = rerank_chunks(retrieved.results, resp)
    /\ retrieved' = [retrieved EXCEPT
                        !.results = [i \in DOMAIN @ |->
                                        WithScore(@[i], item_score(@[i], resp[i]))]]
    /\ pc' = "reranked"
    /\ UNCHANGED <<args, page>>
    /\ UNCHANGED mainVars
    /\ UNCHANGED lab8Vars
    /\ UNCHANGED lab4Vars
    /\ UNCHANGED chunkVars
    /\ UNCHANGED otherVars

----------------------------------------------------------------------------
(* Retrieval and re-ranking on a stored document *)

\* the largest top_k of a call
MaxTopK == 3

\* the values of top_k: main passes the slider's value, which is positive;
\* the function takes any integer
TopKs == -1..MaxTopK

Queries == {"q1", "q2"}

\* one document of at most `most` chunks went through the upload loop, with any
\* pattern of failures
OneDocumentStored(most) ==
    /\ page = "lab8"
    /\ QueryIdle
    /\ ChunkIdle
    /\ OtherIdle
    /\ \E c \in Documents(most) \ {<<>>} :
         \E ok \in [1..Len(c) -> BOOLEAN] :
            /\ uploaded_files = [n \in Names |-> IF n = FileNames[1] THEN c ELSE <<>>]
            /\ documents = [n \in {FileNames[1]} |-> StoredDocument(n, c, ok)]
            /\ embedded = [n \in {FileNames[1]} |-> ok]
            /\ uploads = [n \in Names |-> IF n = FileNames[1] THEN 1 ELSE 0]
    /\ pdfs = <<>>
    /\ coll = {}
    /\ added = 0
    /\ builds = 0
    /\ add_failed = FALSE
    /\ add_failures = NoFailures
    /\ chroma = "raises"

InitQuery == OneDocumentStored(MaxChunks)

RetrieveStep ==
    \E name \in DOMAIN documents, query \in Queries, ok \in BOOLEAN, top_k \in TopKs :
        Retrieve(name, query, ok, top_k)

RerankStep ==
    \E resp \in [1..Len(retrieved.results) -> Responses] : Rerank(resp)

NextQuery == RetrieveStep \/ RerankStep

SpecQuery == InitQuery /\ [][NextQuery]_vars

----------------------------------------------------------------------------
(* lab8: generate_answer and the query block of main *)

\* line 138: relevant_chunks[:3]
max_context_chunks == 3

\* line 196: the least value of the "Max chunks to retrieve" slider
min_value == 3

\* the most hits a query of main retrieves
MaxHits == 4

\* the values of the slider that the model covers
SliderValues == min_value..MaxHits

\* line 137: chunk['chunk'][:800]
context_chars == 800

\* line 340: final_chunks[:3]
max_sources == 3

\* line 348: chunk['chunk'][:1000]
source_chars == 1000

\* the number of characters of a chunk text; chunk_text is called with
\* chunk_size = 1000 (line 27), which no chunk exceeds
ChunkLength(chunk) ==
    CASE chunk = "t1" -> 500
      [] chunk = "t2" -> 800
      [] chunk = "t3" -> 1000
      [] chunk = "t4" -> 801
      [] OTHER -> 999

\* s[:n] of a text of the given length: the number of characters kept
Truncated(length, n) == Min(length, n)

\* the outcomes of the answer-generation call: it raises, it returns an
\* empty text, it returns an answer
Generations ==
    {[raised |-> TRUE, text |-> ""],
     [raised |-> FALSE, text |-> ""],
     [raised |-> FALSE, text |-> "According to Source 1"]}

\* line 172: f"Error generating answer: {str(e)}"
ErrorAnswer == "Error generating answer: " \o "service unavailable"

\* lines 136-139: the hits the context is made of; the formatting of a hit
\* reads its rerank_score, and raises KeyError when the hit has none
ContextOfAll(relevant_chunks) ==
    [raised |-> \E i \in DOMAIN relevant_chunks :
                    "rerank_score" \notin DOMAIN relevant_chunks[i],
     chunks |-> relevant_chunks,
     excerpts |-> [i \in DOMAIN relevant_chunks |->
                     Truncated(ChunkLength(relevant_chunks[i].chunk), context_chars)]]

ContextOf(relevant_chunks) ==
    LET used == SubSeq(relevant_chunks, 1, Min(max_context_chunks, Len(relevant_chunks)))
    IN  [raised |-> \E i \in DOMAIN used : "rerank_score" \notin DOMAIN used[i],
         chunks |-> used,
         excerpts |-> [i \in DOMAIN used |->
                         Truncated(ChunkLength(used[i].chunk), context_chars)]]

\* lines 133-172: gen is the outcome of the call of the generation service.
\* The context is built before the try: a KeyError leaves the function, and
\* the service is not called; an exception of the call becomes the returned text.
generate_answer(relevant_chunks, gen) ==
    LET ctx == ContextOf(relevant_chunks)
    IN  IF ctx.raised
        THEN [raised |-> TRUE, called |-> FALSE, context |-> <<>>, excerpts |-> <<>>,
              text |-> None]
        ELSE [raised |-> FALSE, called |-> TRUE, context |-> ctx.chunks,
              excerpts |-> ctx.excerpts,
              text |-> IF gen.raised THEN ErrorAnswer ELSE gen.text]

\* lines 340-351: the hits shown under "Sources Used", each with the number
\* of characters of its text that the "Content" area shows
SourcesUsed(final) ==
    [i \in 1..Min(max_sources, Len(final)) |->
        [hit |-> final[i], chars |-> Truncated(ChunkLength(final[i].chunk), source_chars)]]

\* lines 301-334: one query on the selected document. An exception that
\* leaves retrieve_relevant_chunks or generate_answer ends the run of the
\* script: nothing is shown under "Analysis Results". Each query is handled
\* by a run of the script of its own, and nothing of it is kept for the next.
Query(selected_doc, query, max_chunks, use, ok, order, resp, gen) ==
    /\ pc = "idle"
    /\ page = "lab8"
    /\ selected_doc \in DOMAIN documents
    /\ LET doc_data == documents[selected_doc]
       IN  /\ order \in Orders(query, doc_data.embeddings, ok)
           /\
             LET r == retrieve_relevant_chunks(
                          query, doc_data.chunks, doc_data.embeddings, ok, max_chunks, order)
                 scored == [i \in DOMAIN r.results |->
                              WithScore(r.results[i], item_score(r.results[i], resp[i]))]
                 final == IF use THEN rerank_chunks(r.results, resp) ELSE r.results
                 g == generate_answer(final, gen)
             IN  /\ DOMAIN resp = IF use /\ ~r.raised THEN DOMAIN r.results ELSE {}
                 /\ args' = [doc |-> selected_doc, query |-> query,
                             embedded |-> ok, top_k |-> max_chunks]
                 /\ use_reranking' = use
                 /\ IF r.raised
                    THEN /\ retrieved' = r
                         /\ responses' = <<>>
                         /\ reranked' = <<>>
                         /\ final_chunks' = <<>>
                         /\ generation' = [called |-> FALSE, raised |-> FALSE, text |-> ""]
                         /\ context' = <<>>
                         /\ excerpts' = <<>>
                         /\ sources' = <<>>
                         /\ answer' = None
                         /\ calls' = [scorer |-> 0, generator |-> 0]
                         /\ pc' = "failed"
                    ELSE /\ retrieved' = IF use THEN [r EXCEPT !.results = scored] ELSE r
                         /\ responses' = IF use THEN resp ELSE <<>>
                         /\ reranked' = IF use THEN final ELSE <<>>
                         /\ final_chunks' = final
                         /\ generation' = [called |-> g.called,
                                           raised |-> g.called /\ gen.raised,
                                           text |-> IF g.called /\ ~gen.raised
                                                    THEN gen.text ELSE ""]
                         /\ context' = g.context
                         /\ excerpts' = g.excerpts
                         /\ sources' = IF g.raised THEN <<>> ELSE SourcesUsed(final)
                         /\ answer' = g.text
                         /\ calls' = [scorer |-> IF use THEN Len(r.results) ELSE 0,
                                      generator |-> IF g.called THEN 1 ELSE 0]
                         /\ pc' = IF g.raised THEN "failed" ELSE "answered"
    /\ UNCHANGED page
    /\ UNCHANGED lab8Vars
    /\ UNCHANGED lab4Vars
    /\ UNCHANGED chunkVars
    /\ UNCHANGED otherVars

InitMain == OneDocumentStored(MaxHits)

\* the outcomes of a scoring call that a query of main is followed for: it
\* raises, it returns a low score, it returns a high score
MainResponses ==
    {r \in Responses : r.raised \/ r.text \in {<<"3">>, <<"8", ".", "5">>}}

QueryStep ==
    /\ pc = "idle"
    /\ \E selected_doc \in DOMAIN documents, query \in Queries,
          max_chunks \in SliderValues, use \in BOOLEAN, ok \in BOOLEAN, gen \in Generations :
        \* one scoring call for each hit: none without re-ranking, none when
        \* the retrieval raised, and the retrieval returns at most max_chunks hits
        \E n \in {0, IF use
                     THEN Min(max_chunks, Len(documents[selected_doc].embeddings))
                     ELSE 0} :
            \E order \in Orders(query, documents[selected_doc].embeddings, ok),
               resp \in [1..n -> MainResponses] :
                Query(selected_doc, query, max_chunks, use, ok, order, resp, gen)

NextMain == QueryStep

SpecMain == InitMain /\ [][NextMain]_vars

----------------------------------------------------------------------------
(* Claims about retrieval and re-ranking, checked under SpecQuery *)

\* retrieve_relevant_chunks has been called
Called == pc \in {"retrieved", "reranked"}

\* the index the call was made on
IndexChunks == documents[args.doc].chunks
IndexEmbeddings == documents[args.doc].embeddings
IndexSize == Len(IndexEmbeddings)

\* the hits are min(k, n) in number, in order of non-increasing similarity,
\* each with the chunk text at its index
TopHits(results) ==
    /\ Len(results) = Min(args.top_k, IndexSize)
    /\ \A i \in 1..Len(results) - 1 :
           results[i].similarity >= results[i + 1].similarity
    /\ \A i \in DOMAIN results :
           /\ results[i].index + 1 \in DOMAIN IndexChunks
           /\ results[i].chunk = IndexChunks[results[i].index + 1]

\* C4 as stated: for a non-empty index and k >= 1, retrieve_relevant_chunks
\* returns exactly min(k, n) hits, by non-increasing similarity, each with
\* the chunk text found at its index.
C4_ReturnsTopK ==
    (Called /\ IndexSize >= 1 /\ args.top_k >= 1) =>
        (~retrieved.raised /\ TopHits(retrieved.results))

\* C4 amended: for a non-empty index and k >= 1, retrieve_relevant_chunks
\* returns exactly min(k, n) hits, by non-increasing similarity, each with the
\* chunk text found at its index, when the embedding of the query was
\* obtained; when that call failed, it returns no hits.
C4_ReturnsTopKWhenQueryEmbedded ==
    (Called /\ IndexSize >= 1 /\ args.top_k >= 1) =>
        /\ ~retrieved.raised
        /\ args.embedded => TopHits(retrieved.results)
        /\ ~args.embedded => retrieved.results = <<>>

\* a call with 1 <= k < n returned k hits
C4_Witness ==
    /\ pc = "retrieved"
    /\ args.embedded
    /\ args.top_k >= 1
    /\ args.top_k < IndexSize
    /\ Len(retrieved.results) = args.top_k

\* C5: with k <= 0, a call of retrieve_relevant_chunks that returns, returns
\* an empty sequence of hits.
C5_NoHitsForNonPositiveK ==
    (Called /\ args.top_k <= 0 /\ ~retrieved.raised) => retrieved.results = <<>>

\* C6: on an index with no chunks and no vectors, retrieval returns an empty
\* sequence of hits and raises nothing.
C6_EmptyIndexReturnsNothing ==
    (Called /\ IndexSize = 0) => (~retrieved.raised /\ retrieved.results = <<>>)

\* C7: hits of equal similarity come in the order of their indexes, and a hit
\* is never kept in place of a chunk of the same similarity and lower index.
C7_StableTieBreak ==
    (Called /\ args.embedded /\ args.top_k >= 1 /\ IndexSize >= 1) =>
        LET results == retrieved.results
            sims == similarities(EmbeddingOf(args.query), IndexEmbeddings)
            kept == {results[i].index + 1 : i \in DOMAIN results}
        IN  /\ \A i, j \in DOMAIN results :
                   (i < j /\ results[i].similarity = results[j].similarity)
                       => results[i].index < results[j].index
            /\ \A p \in kept : \A q \in DOMAIN sims \ kept :
                   sims[q] = sims[p] => p < q

\* a hit without its rerank_score
Hit(h) == [chunk |-> h.chunk, similarity |-> h.similarity, index |-> h.index]

\* C8: the list rerank_chunks returns holds exactly the hits it was given,
\* each once, whatever the scoring calls did.
C8_SameHits ==
    pc = "reranked" =>
        /\ Len(reranked) = Len(retrieved.results)
        /\ \E p \in Orderings(Len(reranked)) :
               \A i \in DOMAIN reranked :
                   Hit(reranked[i]) = Hit(retrieved.results[p[i]])

\* two or more hits were re-ranked, a scoring call raised, another returned,
\* and the order changed
C8_Witness ==
    /\ pc = "reranked"
    /\ Len(reranked) >= 2
    /\ \E i \in DOMAIN responses : responses[i].raised
    /\ \E i \in DOMAIN responses : ~responses[i].raised
    /\ reranked[1].index # retrieved.results[1].index

\* the text has a numeric token: it has a digit
HasNumericToken(text) == \E i \in DOMAIN text : IsDigit(text[i])

\* the first numeric token of a text that has one: the first run of digits,
\* with the point and the digits that follow it, if any; in hundredths
FirstNumericToken(text) ==
    LET first == CHOOSE i \in DOMAIN text :
                     IsDigit(text[i]) /\ \A j \in 1..i - 1 : ~IsDigit(text[j])
        RECURSIVE RunEnd(_)
        RunEnd(i) == IF i + 1 \in DOMAIN text /\ IsDigit(text[i + 1])
                     THEN RunEnd(i + 1) ELSE i
        last == RunEnd(first)
        whole == IntValue(SubSeq(text, first, last)) * ScoreScale
    IN  IF last + 2 \in DOMAIN text /\ text[last + 1] = "." /\ IsDigit(text[last + 2])
        THEN LET decimals == SubSeq(text, last + 2, RunEnd(last + 2))
             IN  whole + (IntValue(decimals) * ScoreScale) \div Pow10(Len(decimals))
        ELSE whole

\* C9: a hit whose scoring call raised, or whose response has no numeric
\* token, has rerank_score = similarity * 10; every other hit has the score of
\* its own response, clamped to [0, 10].
C9_FallbackForFailedOnly ==
    pc = "reranked" =>
        \A i \in DOMAIN retrieved.results :
            LET h == retrieved.results[i]
                r == responses[i]
            IN  IF r.raised \/ ~HasNumericToken(r.text)
                THEN h.rerank_score = FallbackScore(h)
                ELSE h.rerank_score = Clamp(FirstNumericToken(r.text))

\* the place of a re-ranked hit in the list rerank_chunks was given
InputPlace(h) ==
    CHOOSE p \in DOMAIN retrieved.results : retrieved.results[p].index = h.index

\* C10: the list rerank_chunks returns is in order of non-increasing
\* rerank_score, and hits of equal rerank_score are in their input order.
C10_SortedStable ==
    pc = "reranked" =>
        \A i, j \in DOMAIN reranked :
            i < j =>
                /\ reranked[i].rerank_score >= reranked[j].rerank_score
                /\ reranked[i].rerank_score = reranked[j].rerank_score
                       => InputPlace(reranked[i]) < InputPlace(reranked[j])

\* two hits of equal rerank_score were re-ranked, below a hit that moved up
C10_Witness ==
    /\ pc = "reranked"
    /\ \E i, j \in DOMAIN reranked :
           i < j /\ reranked[i].rerank_score = reranked[j].rerank_score
    /\ \E i \in DOMAIN reranked : InputPlace(reranked[i]) # i

\* C11: every hit rerank_chunks returns has a rerank_score in [0, 10],
\* whether the score came from the scorer or from the fallback.
C11_ScoreInRange ==
    pc = "reranked" =>
        \A i \in DOMAIN reranked :
            /\ reranked[i].rerank_score >= 0
            /\ reranked[i].rerank_score <= 10 * ScoreScale

\* C12: the score parsed from a response that has a numeric token is the
\* first numeric token, clamped to [0, 10]; what follows the token does not
\* change it ("8/10" parses as 8).
C12_ParsesFirstNumericToken ==
    pc = "reranked" =>
        \A i \in DOMAIN responses :
            (~responses[i].raised /\ HasNumericToken(responses[i].text)) =>
                LET parsed == float(KeptCharacters(responses[i].text))
                IN  /\ ~parsed.raised
                    /\ Clamp(parsed.value) = Clamp(FirstNumericToken(responses[i].text))
                    /\ retrieved.results[i].rerank_score = Clamp(parsed.value)

----------------------------------------------------------------------------
(* Claims about the query block of main, checked under SpecMain *)

\* the query was handled: an answer was shown, or an exception ended the run
Handled == pc \in {"answered", "failed"}

\* an answer text that states that no relevant material was found
NoRelevantMaterial == "No relevant material was found."

\* C13: when retrieval returns zero hits, neither the relevance scorer nor
\* the answer-generation service is called for the query, and the answer
\* states that no relevant material was found.
C13_ShortCircuitOnNoHits ==
    (Handled /\ ~retrieved.raised /\ retrieved.results = <<>>) =>
        /\ calls.scorer = 0
        /\ calls.generator = 0
        /\ pc = "answered"
        /\ answer = NoRelevantMaterial

\* C14: with re-ranking disabled and at least one retrieved hit, the hits go
\* unchanged and in similarity order to answer generation, and the query
\* completes with an answer generated from them.
C14_PassThroughWithoutRerank ==
    (Handled /\ ~use_reranking /\ ~retrieved.raised /\ Len(retrieved.results) >= 1) =>
        /\ final_chunks = retrieved.results
        /\ \A i \in 1..Len(final_chunks) - 1 :
               final_chunks[i].similarity >= final_chunks[i + 1].similarity
        /\ generation.called
        /\ context = SubSeq(final_chunks, 1, Min(max_context_chunks, Len(final_chunks)))
        /\ pc = "answered"

\* C15: when the answer-generation call fails or returns an empty text, the
\* failure is not shown as the answer: the query does not end as answered.
C15_GenerationFailureSurfaced ==
    (Handled /\ generation.called /\ (generation.raised \/ generation.text = "")) =>
        pc # "answered"

\* C22: the sources shown with an answer are the hits whose excerpts were
\* put in the generation context, in the same order: both are the first 3
\* entries of the final ranked list, and each excerpt of the context is the
\* hit's text cut to at most 800 characters.
C22_SourcesAreContextHits ==
    pc = "answered" =>
        LET k == Min(max_context_chunks, Len(final_chunks))
        IN  /\ Len(sources) = k
            /\ Len(context) = k
            /\ Len(excerpts) = k
            /\ \A i \in 1..k :
                  /\ sources[i].hit = context[i]
                  /\ context[i] = final_chunks[i]
                  /\ excerpts[i] <= context_chars
                  /\ excerpts[i] = Truncated(ChunkLength(final_chunks[i].chunk), context_chars)

\* an answer is shown for a query with more hits than the context takes,
\* and the text of a hit of the context is longer than the excerpt
C22_Witness ==
    /\ pc = "answered"
    /\ Len(final_chunks) > max_context_chunks
    /\ sources # <<>>
    /\ \E i \in DOMAIN context : ChunkLength(context[i].chunk) > excerpts[i]

----------------------------------------------------------------------------
(* The chunkers: chunk_text of lab4 and chunk_text of lab8 *)

\* the longest text given to a chunker
MaxTextLen == 6
\* the largest max_chars (chunk_size) and the largest overlap of a call
MaxChars == 5
\* the most chunks the lab8 loop is followed for
MaxIterations == 4

\* A text is a sequence of characters. The letter at place i of a text is
\* Letters[i], so that a letter tells the place it comes from.
Letters == <<"a", "b", "c", "d", "e", "f", "g", "h">>

\* the texts of at most n characters, each a letter or one of the separators
Texts(n, separators) ==
    UNION {{[i \in 1..k |-> IF shape[i] = "x" THEN Letters[i] ELSE shape[i]] :
                shape \in [1..k -> {"x"} \cup separators]} : k \in 0..n}

\* the characters str.strip() removes
Whitespace == {" ", "\n"}

RECURSIVE lstrip(_)
lstrip(s) == IF s # <<>> /\ s[1] \in Whitespace THEN lstrip(Tail(s)) ELSE s

RECURSIVE rstrip(_)
rstrip(s) ==
    IF s # <<>> /\ s[Len(s)] \in Whitespace THEN rstrip(SubSeq(s, 1, Len(s) - 1)) ELSE s

\* str.strip()
strip(s) == rstrip(lstrip(s))

\* str.split(sep): the pieces between the separators, empty ones included
RECURSIVE split(_, _)
split(s, sep) ==
    IF \A i \in DOMAIN s : s[i] # sep THEN <<s>>
    ELSE LET i == CHOOSE j \in DOMAIN s : s[j] = sep /\ \A k \in 1..j - 1 : s[k] # sep
         IN  <<SubSeq(s, 1, i - 1)>> \o split(SubSeq(s, i + 1, Len(s)), sep)

\* the slice s[a:b] of Python: a negative index counts from the end, and
\* both indexes are cut to the length of s
PySlice(s, a, b) ==
    LET n == Len(s)
        lo == IF a < 0 THEN Max(a + n, 0) ELSE Min(a, n)
        hi == IF b < 0 THEN Max(b + n, 0) ELSE Min(b, n)
    IN  SubSeq(s, lo + 1, hi)

\* str.rfind(c): the last index of c, counted from 0, or -1
rfind(s, c) ==
    IF \A i \in DOMAIN s : s[i] # c THEN 0 - 1
    ELSE (CHOOSE i \in DOMAIN s : s[i] = c /\ \A k \in i + 1..Len(s) : s[k] # c) - 1

\* lab4, line 63: the paragraphs, stripped, the empty ones left out
Paragraphs(text) ==
    LET pieces == split(text, "\n")
        stripped == [i \in DOMAIN pieces |-> strip(pieces[i])]
    IN  SelectSeq(stripped, LAMBDA para : para # <<>>)

\* lab4, line 76: p[max(0, max_chars - overlap):max_chars - overlap + max_chars]
HardCutRest(p, max_chars_, overlap_) ==
    PySlice(p, Max(0, max_chars_ - overlap_), max_chars_ - overlap_ + max_chars_)

\* lab4, line 71, with a fault: it forgets the tail
OverlapTailNone(cur, overlap_) == <<>>

\* lab4, line 71: cur[-overlap:] if overlap > 0 else ""
OverlapTail(cur, overlap_) ==
    IF overlap_ > 0 THEN PySlice(cur, 0 - overlap_, Len(cur)) ELSE <<>>

\* lab4, lines 65-76: the loop over the paragraphs, from paragraph i on.
\* closes_ notes, for each chunk appended, whether it was the buffer closed
\* because paragraph number next did not fit (overflow) or a hard cut.
RECURSIVE ParagraphLoop(_, _, _, _, _, _, _)
ParagraphLoop(paras, i, chunks_, closes_, cur, max_chars_, overlap_) ==
    IF i > Len(paras) THEN [chunks |-> chunks_, closes |-> closes_, cur |-> cur]
    ELSE LET p == paras[i]
         IN  IF Len(cur) + Len(p) + 1 <= max_chars_
             THEN ParagraphLoop(paras, i + 1, chunks_, closes_,
                                strip(cur \o <<"\n">> \o p), max_chars_, overlap_)
             ELSE IF cur # <<>>
             THEN LET tail == OverlapTail(cur, overlap_)
                  IN  ParagraphLoop(paras, i + 1, Append(chunks_, cur),
                                    Append(closes_, [overflow |-> TRUE, next |-> i]),
                                    strip(tail \o <<"\n">> \o p), max_chars_, overlap_)
             ELSE ParagraphLoop(paras, i + 1,
                                Append(chunks_, PySlice(p, 0, max_chars_)),
                                Append(closes_, [overflow |-> FALSE, next |-> i]),
                                HardCutRest(p, max_chars_, overlap_),
                                max_chars_, overlap_)

\* lab4, lines 64-78: the chunks, with the note of how each was closed
lab4_chunking(text, max_chars_, overlap_) ==
    LET r == ParagraphLoop(Paragraphs(text), 1, <<>>, <<>>, <<>>, max_chars_, overlap_)
    IN  [chunks |-> IF r.cur # <<>> THEN Append(r.chunks, r.cur) ELSE r.chunks,
         closes |-> r.closes]

\* lab4, lines 59-79
lab4_chunk_text(text, max_chars_, overlap_) == lab4_chunking(text, max_chars_, overlap_).chunks

\* a call of lab4's chunk_text
Chunk4 ==
    /\ chunker = "lab4"
    /\ chunking = "called"
    /\ ct_chunks' = lab4_chunk_text(ct_text, ct_max_chars, ct_overlap)
    /\ ct_closes' = lab4_chunking(ct_text, ct_max_chars, ct_overlap).closes
    /\ chunking' = "returned"
    /\ UNCHANGED <<page, chunker, ct_text, ct_max_chars, ct_overlap, ct_start>>
    /\ UNCHANGED lab8Vars
    /\ UNCHANGED lab4Vars
    /\ UNCHANGED queryVars
    /\ UNCHANGED otherVars

\* lab8, lines 34-48: the body of the while loop for the window that starts
\* at start_: the chunk appended and the next start
lab8_window(text, start_, chunk_size, overlap_) ==
    LET end0 == start_ + chunk_size
        chunk0 == PySlice(text, start_, end0)
        break_point == Max(rfind(chunk0, "."), rfind(chunk0, "\n"))
        cut == end0 < Len(text) /\ 2 * break_point > chunk_size
        chunk == IF cut THEN PySlice(chunk0, 0, break_point + 1) ELSE chunk0
        end == IF cut THEN start_ + break_point + 1 ELSE end0
    IN  [chunk |-> strip(chunk), start |-> end - overlap_]

\* lab8, lines 33-50: the test of the while loop and, when it holds, one
\* run of its body; the loop is followed for MaxIterations chunks
Chunk8 ==
    /\ chunker = "lab8"
    /\ chunking \in {"called", "running"}
    /\ Len(ct_chunks) < MaxIterations
    /\ IF ct_start < Len(ct_text)
       THEN LET w == lab8_window(ct_text, ct_start, ct_max_chars, ct_overlap)
            IN  /\ ct_chunks' = Append(ct_chunks, w.chunk)
                /\ ct_start' = w.start
                /\ chunking' = "running"
       ELSE /\ chunking' = "returned"
            /\ UNCHANGED <<ct_chunks, ct_start>>
    /\ UNCHANGED <<page, chunker, ct_text, ct_max_chars, ct_overlap, ct_closes>>
    /\ UNCHANGED lab8Vars
    /\ UNCHANGED lab4Vars
    /\ UNCHANGED queryVars
    /\ UNCHANGED otherVars

\* a chunk_text is called, on any text and with any max_chars >= 1 and
\* overlap >= 0 (the pages call it with the default values only)
InitChunk ==
    /\ chunker \in {"lab4", "lab8"}
    /\ page = chunker
    /\ ct_text \in (IF chunker = "lab4" THEN Texts(MaxTextLen, {"\n", " "})
                    ELSE Texts(MaxTextLen, {"\n", "."}))
    /\ ct_max_chars \in 1..MaxChars
    /\ ct_overlap \in 0..MaxChars
    /\ ct_chunks = <<>>
    /\ ct_start = 0
    /\ ct_closes = <<>>
    /\ chunking = "called"
    /\ QueryIdle
    /\ OtherIdle
    /\ uploaded_files = [n \in Names |-> <<>>]
    /\ documents = <<>>
    /\ embedded = <<>>
    /\ uploads = [n \in Names |-> 0]
    /\ pdfs = <<>>
    /\ coll = {}
    /\ added = 0
    /\ builds = 0
    /\ add_failed = FALSE
    /\ add_failures = NoFailures
    /\ chroma = "raises"

NextChunk == Chunk4 \/ Chunk8

SpecChunk == InitChunk /\ [][NextChunk]_vars

----------------------------------------------------------------------------
(* Claims about the chunkers, checked under SpecChunk *)

\* C16: for lab4's chunk_text with 0 <= overlap < max_chars, every chunk
\* returned has at most max_chars characters, for every text.
C16_ChunksWithinMax ==
    (chunker = "lab4" /\ chunking = "returned" /\ ct_overlap < ct_max_chars) =>
        \A i \in DOMAIN ct_chunks : Len(ct_chunks[i]) <= ct_max_chars

\* C17: a chunk_text called with overlap >= max_chars (chunk_size) does not
\* go on to chunk: neither chunker produces a chunk.
C17_InvalidOverlapRejected ==
    (chunking \in {"running", "returned"} /\ ct_overlap >= ct_max_chars) =>
        ct_chunks = <<>>

\* C18: for a text of one paragraph longer than max_chars, lab4's chunk_text
\* returns the first max_chars characters as its first chunk, and every
\* character of the paragraph is in at least one chunk.
C18_OversizedParagraphKept ==
    (/\ chunker = "lab4"
     /\ chunking = "returned"
     /\ ct_overlap < ct_max_chars
     /\ Len(Paragraphs(ct_text)) = 1
     /\ Len(Paragraphs(ct_text)[1]) > ct_max_chars) =>
        LET p == Paragraphs(ct_text)[1]
        IN  /\ ct_chunks # <<>>
            /\ ct_chunks[1] = SubSeq(p, 1, ct_max_chars)
            /\ \A i \in DOMAIN p :
                   \E c \in DOMAIN ct_chunks :
                       \E j \in DOMAIN ct_chunks[c] : ct_chunks[c][j] = p[i]

\* C21: every chunk lab8's chunk_text appends is non-empty after trimming,
\* for every text and 0 <= overlap < chunk_size; for the empty text it
\* returns the empty list.
C21_ChunksNonEmpty ==
    (chunker = "lab8" /\ ct_overlap < ct_max_chars) =>
        /\ \A i \in DOMAIN ct_chunks : strip(ct_chunks[i]) # <<>>
        /\ (ct_text = <<>> /\ chunking = "returned") => ct_chunks = <<>>

\* C25: with 0 <= overlap < chunk_size, every iteration of the loop of lab8's
\* chunk_text moves the window start forward, so that the loop ends.
C25_StartIncreases ==
    [][(chunker = "lab8" /\ ct_overlap < ct_max_chars /\ ct_chunks' # ct_chunks)
           => ct_start' > ct_start]_vars

\* s begins with prefix
BeginsWith(s, prefix) ==
    Len(prefix) <= Len(s) /\ SubSeq(s, 1, Len(prefix)) = prefix

\* the last n characters of s, the whole of s when it is shorter
LastChars(s, n) == SubSeq(s, Max(Len(s) - n, 0) + 1, Len(s))

\* lab4's chunk_text returned, after a call with overlap > 0
Returned4WithOverlap == chunker = "lab4" /\ chunking = "returned" /\ ct_overlap > 0

\* C24 as stated: with overlap > 0, the chunk after a chunk closed by
\* overflow begins with the last overlap characters of the closed chunk (all
\* of it when it is shorter), followed by the paragraph that did not fit.
C24_OverlapTailKept ==
    Returned4WithOverlap =>
        \A k \in DOMAIN ct_closes :
            ct_closes[k].overflow =>
                /\ k + 1 \in DOMAIN ct_chunks
                /\ BeginsWith(ct_chunks[k + 1],
                              LastChars(ct_chunks[k], ct_overlap) \o <<"\n">>
                                  \o Paragraphs(ct_text)[ct_closes[k].next])

\* C24 amended: with overlap > 0, the chunk after a chunk closed by overflow
\* begins with the last overlap characters of the closed chunk (all of it
\* when it is shorter), a newline and the paragraph that did not fit, less
\* the whitespace this text begins with.
C24_OverlapTailKeptTrimmed ==
    Returned4WithOverlap =>
        \A k \in DOMAIN ct_closes :
            ct_closes[k].overflow =>
                /\ k + 1 \in DOMAIN ct_chunks
                /\ BeginsWith(ct_chunks[k + 1],
                              lstrip(LastChars(ct_chunks[k], ct_overlap) \o <<"\n">>
                                         \o Paragraphs(ct_text)[ct_closes[k].next]))

\* a chunk was closed by overflow, its last overlap characters begin with a
\* blank, and the chunk after it is longer than what is left of them
C24_Witness ==
    /\ Returned4WithOverlap
    /\ \E k \in DOMAIN ct_closes :
           /\ ct_closes[k].overflow
           /\ ct_overlap < Len(ct_chunks[k])
           /\ LastChars(ct_chunks[k], ct_overlap)[1] = " "
           /\ Len(ct_chunks[k + 1]) > ct_overlap

----------------------------------------------------------------------------
(* lab3: the chatbot *)

\* the most prompts one session is followed for
MaxPrompts == 22

\* line 21: keep last 20 user-assistant exchanges
BUFFER_EXCHANGES == 20

\* The prompts the user sends. st.chat_input returns the text as typed, and
\* the handler runs for any text that is not empty.
Prompts ==
    {"yes", "no", "hi", "thanks", "ok", "why is the sky blue?", "what is rain?", " "}

\* lines 51-52: GREETING_PAT matches the stripped text
is_greeting(text) == text \in {"hi"}

\* lines 54-55: ACK_PAT matches the stripped text
is_ack(text) == text \in {"thanks", "ok"}

\* lines 57-59
is_yes(text) == text \in {"yes", "ok"}

\* lines 61-63
is_no(text) == text \in {"no"}

\* lines 75-86: a text that is blank after strip() is not a topic
is_topic(text) ==
    IF text = " " THEN FALSE
    ELSE ~(is_greeting(text) \/ is_yes(text) \/ is_no(text) \/ is_ack(text))

\* line 98: the delays between the streaming attempts, in tenths of a second
delays == <<8, 16, 32>>

\* the outcomes of one chat.completions.create call: it returns, it raises
\* one of the errors of line 110, it raises another exception
CallOutcomes == {"ok", "retryable", "other"}

\* the most calls generate_response_streaming makes
MaxCalls == Len(<<0>> \o delays) + 1

\* lines 100-112: the loop `for delay in [0] + delays`, from its attempt k
\* on; outcome[j] is the outcome of call j. An exception that line 110 does
\* not name leaves the loop and the function.
RECURSIVE StreamingLoop(_, _, _)
StreamingLoop(outcome, k, made_so_far) ==
    IF k > Len(<<0>> \o delays) THEN [calls |-> made_so_far, result |-> "exhausted"]
    ELSE LET made == Append(made_so_far, [mode |-> "stream", outcome |-> outcome[k]])
         IN  CASE outcome[k] = "ok" -> [calls |-> made, result |-> "returned"]
               [] outcome[k] = "retryable" -> StreamingLoop(outcome, k + 1, made)
               [] OTHER -> [calls |-> made, result |-> "raised"]

\* lines 97-120, with a fault: it raises when the streaming attempts are
\* used up, and makes no call without streaming
generate_response_streaming_no_fallback(outcome) ==
    LET l == StreamingLoop(outcome, 1, <<>>)
    IN  IF l.result # "exhausted" THEN l
        ELSE [calls |-> l.calls, result |-> "raised"]

\* lines 97-120: after the loop, one call without streaming; any exception
\* of that call is answered by raising the last error of the loop
generate_response_streaming(outcome) ==
    LET l == StreamingLoop(outcome, 1, <<>>)
    IN  IF l.result # "exhausted" THEN l
        ELSE LET k == Len(l.calls) + 1
                 made == Append(l.calls, [mode |-> "plain", outcome |-> outcome[k]])
             IN  IF outcome[k] = "ok"
                 THEN [calls |-> made, result |-> "returned"]
                 ELSE [calls |-> made, result |-> "raised"]

\* what generate_response_streaming may do in one call of it
StreamRuns == {generate_response_streaming(o) : o \in [1..MaxCalls -> CallOutcomes]}

\* generate_response_streaming is not called
NoStream == [calls |-> <<>>, result |-> "none"]

\* lines 203-204, with a fault: it keeps the first messages
TrimmedFromStart(history) ==
    IF Len(history) > BUFFER_EXCHANGES * 2
    THEN PySlice(history, 0, BUFFER_EXCHANGES * 2)
    ELSE history

\* lines 203-204: chat_history[-(BUFFER_EXCHANGES * 2):]
Trimmed(history) ==
    IF Len(history) > BUFFER_EXCHANGES * 2
    THEN PySlice(history, 0 - BUFFER_EXCHANGES * 2, Len(history))
    ELSE history

\* lines 151-200: the branch of the if/elif chain that handles the prompt
Branch(text) ==
    CASE is_yes(text) -> "yes"
      [] ~is_yes(text) /\ is_no(text) -> "no"
      [] ~is_yes(text) /\ ~is_no(text) /\ is_greeting(text) -> "greeting"
      [] ~is_yes(text) /\ ~is_no(text) /\ ~is_greeting(text) /\ is_ack(text) -> "ack"
      [] OTHER -> "topic"

\* lines 145-204: one prompt is handled. A message is kept as its role and
\* the number of the prompt it belongs to. stream_and_render catches what
\* generate_response_streaming raises, and the reply, empty then, is appended
\* like any other.
Handle(text, run) ==
    /\ page = "lab3"
    /\ Len(chat_log) < 2 * MaxPrompts
    /\ LET turn == Len(chat_log) \div 2 + 1
           user == [role |-> "user", turn |-> turn]
           assistant == [role |-> "assistant", turn |-> turn]
           branch == Branch(text)
           expands == branch = "yes" /\ last_user_question # None
           streams == expands \/ branch = "topic"
       IN  /\ (run = NoStream) <=> ~streams
           /\ prompt' = text
           /\ stream' = run
           /\ expanded' = IF expands THEN last_user_question ELSE None
           /\ last_user_question' =
                 CASE branch = "greeting" -> None
                   [] branch = "topic" -> text
                   [] OTHER -> last_user_question
           /\ chat_log' = chat_log \o <<user, assistant>>
           /\ chat_history' = Trimmed(chat_history \o <<user, assistant>>)
    /\ UNCHANGED page
    /\ UNCHANGED lab8Vars
    /\ UNCHANGED lab4Vars
    /\ UNCHANGED queryVars
    /\ UNCHANGED chunkVars
    /\ UNCHANGED docVars
    /\ UNCHANGED pipelineVars

HandleStep == \E text \in Prompts, run \in StreamRuns \cup {NoStream} : Handle(text, run)

\* a new chat session
InitChat ==
    /\ page = "lab3"
    /\ IngestIdle
    /\ QueryIdle
    /\ ChunkIdle
    /\ OtherIdle

NextChat == HandleStep

SpecChat == InitChat /\ [][NextChat]_vars

----------------------------------------------------------------------------
(* Claims about the chatbot, checked under SpecChat *)

\* C26: after every handled prompt chat_history holds at most 40 messages
\* (the last 20 exchanges), and they are the most recent messages, in the
\* order they were appended in.
C26_HistoryKeepsLastExchanges ==
    prompt # None =>
        /\ Len(chat_history) <= 40
        /\ Len(chat_history) = Min(Len(chat_log), 40)
        /\ chat_history =
              SubSeq(chat_log, Len(chat_log) - Len(chat_history) + 1, Len(chat_log))

\* more than 20 prompts have been handled, and chat_history holds 40 messages
C26_Witness ==
    /\ Len(chat_log) > 40
    /\ Len(chat_history) = 40
    /\ chat_history[1] # chat_log[1]

\* the calls of the last generate_response_streaming in the given mode
CallsIn(mode) == {i \in DOMAIN stream.calls : stream.calls[i].mode = mode}

\* the calls of the last generate_response_streaming that failed
FailedCalls == {i \in DOMAIN stream.calls : stream.calls[i].outcome # "ok"}

\* C27: when calls fail only with the retryable error kinds,
\* generate_response_streaming makes at most 4 streaming attempts and after
\* them at most 1 attempt without streaming, returns at the first attempt
\* that succeeds without a further call, and raises only after all 5 failed.
C27_RetriesThenFallback ==
    (\A i \in DOMAIN stream.calls : stream.calls[i].outcome \in {"ok", "retryable"}) =>
        /\ Cardinality(CallsIn("stream")) <= 4
        /\ Cardinality(CallsIn("plain")) <= 1
        /\ \A i \in CallsIn("stream"), j \in CallsIn("plain") : i < j
        /\ \A i \in DOMAIN stream.calls :
              stream.calls[i].outcome = "ok" =>
                  i = Len(stream.calls) /\ stream.result = "returned"
        /\ stream.result = "returned" =>
              stream.calls[Len(stream.calls)].outcome = "ok"
        /\ stream.result = "raised" =>
              Len(stream.calls) = 5 /\ FailedCalls = DOMAIN stream.calls

\* four streaming attempts failed with a retryable error, and then the
\* attempt without streaming failed too
C27_Witness ==
    /\ stream.result = "raised"
    /\ Len(stream.calls) = 5
    /\ \A i \in DOMAIN stream.calls : stream.calls[i].outcome = "retryable"
    /\ stream.calls[5].mode = "plain"

\* C28: last_user_question is set only by a topic message and cleared only
\* by a greeting; a yes, a no or an acknowledgement leaves it as it is, so
\* that a yes after an acknowledgement expands the most recent topic.
C28_TopicSetOnlyByTopic ==
    [][/\ (last_user_question' # last_user_question) =>
              \/ is_topic(prompt') /\ last_user_question' = prompt'
              \/ is_greeting(prompt') /\ last_user_question' = None
       /\ (prompt' # prompt \/ chat_log' # chat_log) =>
              /\ (is_yes(prompt') \/ is_no(prompt') \/ is_ack(prompt')) =>
                     last_user_question' = last_user_question
              /\ (is_yes(prompt') /\ last_user_question # None) =>
                     expanded' = last_user_question]_vars

----------------------------------------------------------------------------
(* lab1 and lab2: the document pages *)

\* the extensions of the files the uploader lets in: type=("txt", "pdf"),
\* whatever the case of the letters
Extensions == {"txt", "TXT", "pdf", "PDF"}

\* the contents of a file: for a .txt its text, for a .pdf the text of its
\* pages as the PDF library gives it
Data == {<<>>, <<" ">>, <<"a">>, <<"a", " ">>}

\* The files the user may put in the uploader. A PDF is readable when one
\* of the two PDF libraries opens it.
Files ==
    {f \in [extension : Extensions, data : Data, readable : BOOLEAN] :
        f.extension \in {"txt", "TXT"} => f.readable}

\* line 81 of lab1.py: str.lower() of the extension
lower(extension) ==
    CASE extension = "TXT" -> "txt"
      [] extension = "PDF" -> "pdf"
      [] OTHER -> extension

\* uploaded_file.name
NameOf(file) == "document." \o file.extension

\* lab1.py lines 11-41, lab2.py lines 26-52: the stripped text of the pages,
\* or the empty text when neither library reads the file
read_pdf(file) == IF file.readable THEN strip(file.data) ELSE <<>>

Present(value) == [present |-> TRUE, value |-> value]

\* lab1.py lines 43-46, with a fault: it deletes document_text only
clear_doc_text_only(state) == [state EXCEPT !.document_text = Absent]

\* lab1.py lines 43-46, lab2.py lines 54-57
clear_doc_state(state) ==
    [state EXCEPT !.document_text = Absent, !.document_name = Absent]

\* lab1.py lines 75-99, lab2.py lines 163-187: the session state after the
\* upload block, from the session state before it
AfterUpload(state, uploaded_file) ==
    LET cleared == IF uploaded_file = NoFile THEN clear_doc_state(state) ELSE state
    IN  IF uploaded_file = NoFile THEN cleared
        ELSE LET file_extension == lower(uploaded_file.extension)
                 stored(document) ==
                     [cleared EXCEPT !.document_text = Present(document),
                                     !.document_name = Present(NameOf(uploaded_file))]
             IN  CASE file_extension = "txt" -> stored(uploaded_file.data)
                   [] file_extension = "pdf" ->
                        IF read_pdf(uploaded_file) = <<>>
                        THEN clear_doc_state(cleared)
                        ELSE stored(read_pdf(uploaded_file))
                   [] OTHER -> clear_doc_state(cleared)

SessionState == [document_text |-> document_text, document_name |-> document_name]

\* lab1.py lines 54-125: one run of the page. Without an API key nothing
\* below line 58 runs. The model is called when a document is there and the
\* question is not empty.
Lab1Run(has_key, uploaded_file, question) ==
    /\ page \in {"lab1", "lab2"}
    /\ loaded_before' = document_text.present
    /\ page' = "lab1"
    /\ IF has_key
       THEN LET after == AfterUpload(SessionState, uploaded_file)
            IN  /\ document_text' = after.document_text
                /\ document_name' = after.document_name
                /\ doc_run' = [page |-> "lab1", reached |-> TRUE,
                               uploaded |-> uploaded_file,
                               called |-> after.document_text.present /\ question # ""]
       ELSE /\ uploaded_file = NoFile
            /\ question = ""
            /\ doc_run' = [page |-> "lab1", reached |-> FALSE, uploaded |-> NoFile,
                           called |-> FALSE]
            /\ UNCHANGED <<document_text, document_name>>
    /\ UNCHANGED lab8Vars
    /\ UNCHANGED lab4Vars
    /\ UNCHANGED queryVars
    /\ UNCHANGED chunkVars
    /\ UNCHANGED chatVars
    /\ UNCHANGED pipelineVars

\* lab2.py lines 137-207: one run of the page. st.stop() ends the run when
\* there is no API key and when the validation call raises. The summary is
\* asked for when a document is there.
Lab2Run(has_key, validated, uploaded_file) ==
    /\ page \in {"lab1", "lab2"}
    /\ loaded_before' = document_text.present
    /\ page' = "lab2"
    /\ IF has_key /\ validated
       THEN LET after == AfterUpload(SessionState, uploaded_file)
            IN  /\ document_text' = after.document_text
                /\ document_name' = after.document_name
                /\ doc_run' = [page |-> "lab2", reached |-> TRUE,
                               uploaded |-> uploaded_file,
                               called |-> after.document_text.present]
       \* the run stops before the uploader: at line 143, or at line 158
       ELSE /\ uploaded_file = NoFile
            /\ has_key \/ ~validated
            /\ doc_run' = [page |-> "lab2", reached |-> FALSE, uploaded |-> NoFile,
                           called |-> FALSE]
            /\ UNCHANGED <<document_text, document_name>>
    /\ UNCHANGED lab8Vars
    /\ UNCHANGED lab4Vars
    /\ UNCHANGED queryVars
    /\ UNCHANGED chunkVars
    /\ UNCHANGED chatVars
    /\ UNCHANGED pipelineVars

Lab1Step ==
    \E has_key \in BOOLEAN, uploaded_file \in Files \cup {NoFile}, question \in {"", "q"} :
        Lab1Run(has_key, uploaded_file, question)

Lab2Step ==
    \E has_key \in BOOLEAN, validated \in BOOLEAN, uploaded_file \in Files \cup {NoFile} :
        Lab2Run(has_key, validated, uploaded_file)

\* a new session, on one of the two pages
InitDoc ==
    /\ page \in {"lab1", "lab2"}
    /\ IngestIdle
    /\ QueryIdle
    /\ ChunkIdle
    /\ OtherIdle

NextDoc == Lab1Step \/ Lab2Step

SpecDoc == InitDoc /\ [][NextDoc]_vars

----------------------------------------------------------------------------
(* Claims about the document pages, checked under SpecDoc *)

\* the last run was given a PDF from which no text came
EmptyPdf ==
    /\ doc_run.uploaded # NoFile
    /\ lower(doc_run.uploaded.extension) = "pdf"
    /\ (~doc_run.uploaded.readable \/ strip(doc_run.uploaded.data) = <<>>)

\* C29: in every run of lab1 and of lab2 in which no file is uploaded,
\* document_text and document_name are absent from the session state when
\* the question (or summary) step is reached, whatever was loaded in earlier
\* runs; the same holds after a PDF whose text extraction yields nothing.
C29_NoFileNoDocument ==
    (doc_run.reached /\ (doc_run.uploaded = NoFile \/ EmptyPdf)) =>
        /\ ~document_text.present
        /\ ~document_name.present
        /\ ~doc_run.called

\* a document was loaded when the run began, the run had no file (or a PDF
\* with no text) and reached the question step
C29_Witness ==
    /\ doc_run.reached
    /\ loaded_before
    /\ doc_run.uploaded = NoFile
    /\ ~document_text.present

----------------------------------------------------------------------------
(* orchestrator: run_complete_pipeline *)

\* the most times run_complete_pipeline is called in one behaviour
MaxRuns == 3

\* lines 66-90 of orchestrator.py: the keys of results['steps'], in the
\* order the steps are called in
Steps == <<"fetch", "parse", "embeddings", "team_data">>

\* What a step may do: return its results, or raise. The first three steps
\* are calls of other components. prepare_team_data calls
\* self.db.get_papers_for_summarization() first (line 116), one of the
\* methods that database_manager.py leaves out (its line 82); where
\* DatabaseManager has no such method the step raises AttributeError.
StepOutcomes(step) == {"returns", "raises"}

\* line 98: str(e)
ErrorOf(step) == step \o " failed"

\* lines 65-98, with a fault: a step that raises is recorded, and the steps
\* after it run all the same
RECURSIVE RunStepsContinuing(_, _, _, _)
RunStepsContinuing(outcome, k, r, called) ==
    IF k > Len(Steps)
    THEN [results |-> [r EXCEPT !.status = IF r.error = None THEN "SUCCESS" ELSE "FAILED"],
          calls |-> called]
    ELSE IF outcome[Steps[k]] = "returns"
         THEN RunStepsContinuing(outcome, k + 1, [r EXCEPT !.steps = Append(@, Steps[k])],
                                 Append(called, Steps[k]))
         ELSE RunStepsContinuing(outcome, k + 1, [r EXCEPT !.error = ErrorOf(Steps[k])],
                                 Append(called, Steps[k]))

\* lines 65-98: the try block from step k on; r is results so far, called
\* the steps called so far. An exception of a step leaves the block for
\* the except clause.
RECURSIVE RunSteps(_, _, _, _)
RunSteps(outcome, k, r, called) ==
    IF k > Len(Steps)
    THEN [results |-> [r EXCEPT !.status = "SUCCESS"], calls |-> called]
    ELSE IF outcome[Steps[k]] = "returns"
         THEN RunSteps(outcome, k + 1, [r EXCEPT !.steps = Append(@, Steps[k])],
                       Append(called, Steps[k]))
         ELSE [results |-> [r EXCEPT !.status = "FAILED", !.error = ErrorOf(Steps[k])],
               calls |-> Append(called, Steps[k])]

\* lines 250-258: the results are written to a file of their own
save_results(files, r) == Append(files, r)

\* lines 53-109; datetime.now() is read at the start, at the end and for
\* the name of the file
run_complete_pipeline(outcome) ==
    /\ page = "orchestrator"
    /\ pipeline_runs < MaxRuns
    /\ LET start == [start_time |-> clock, steps |-> <<>>, status |-> None,
                     error |-> None, end_time |-> 0]
           ran == RunSteps(outcome, 1, start, <<>>)
           final == [ran.results EXCEPT !.end_time = clock + 1]
       IN  /\ run_results' = final
           /\ step_calls' = ran.calls
           /\ saved' = save_results(saved, final)
    /\ clock' = clock + 3
    /\ pipeline_runs' = pipeline_runs + 1
    /\ UNCHANGED page
    /\ UNCHANGED lab8Vars
    /\ UNCHANGED lab4Vars
    /\ UNCHANGED queryVars
    /\ UNCHANGED chunkVars
    /\ UNCHANGED chatVars
    /\ UNCHANGED docVars

PipelineStep ==
    \E outcome \in [{Steps[k] : k \in DOMAIN Steps} -> {"returns", "raises"}] :
        /\ \A k \in DOMAIN Steps : outcome[Steps[k]] \in StepOutcomes(Steps[k])
        /\ run_complete_pipeline(outcome)

\* the orchestrator is constructed
InitPipeline ==
    /\ page = "orchestrator"
    /\ IngestIdle
    /\ QueryIdle
    /\ ChunkIdle
    /\ OtherIdle

NextPipeline == PipelineStep

SpecPipeline == InitPipeline /\ [][NextPipeline]_vars

----------------------------------------------------------------------------
(* Claims about the pipeline, checked under SpecPipeline *)

\* s is the first entries of t
IsPrefix(s, t) == Len(s) <= Len(t) /\ s = SubSeq(t, 1, Len(s))

\* C30: run_complete_pipeline runs its steps in the order fetch, parse,
\* embeddings, team data; once a step raises no later step runs, and the
\* status is FAILED with the error recorded; the status is SUCCESS only if
\* all four steps completed; in both cases end_time is set and the results
\* are saved exactly once.
C30_PipelineStopsAtFailure ==
    pipeline_runs >= 1 =>
        /\ IsPrefix(step_calls, <<"fetch", "parse", "embeddings", "team_data">>)
        /\ IsPrefix(run_results.steps, step_calls)
        /\ run_results.status \in {"SUCCESS", "FAILED"}
        /\ run_results.status = "FAILED" =>
              /\ run_results.error # None
              /\ Len(run_results.steps) = Len(step_calls) - 1
        /\ run_results.status = "SUCCESS" =>
              /\ run_results.steps = <<"fetch", "parse", "embeddings", "team_data">>
              /\ run_results.error = None
        /\ run_results.end_time > 0
        /\ Len(saved) = pipeline_runs
        /\ saved[Len(saved)] = run_results

\* a run failed at its second step after a run in which all four steps
\* completed, and each of the two was saved
C30_Witness ==
    /\ pipeline_runs = 2
    /\ Len(saved) = 2
    /\ saved[1].status = "SUCCESS"
    /\ saved[1].steps = <<"fetch", "parse", "embeddings", "team_data">>
    /\ run_results.status = "FAILED"
    /\ step_calls = <<"fetch", "parse">>
    /\ run_results.steps = <<"fetch">>

====
